---------------------------- MODULE Spec2Model ----------------------------
(***************************************************************************)
(* Daily-log reconciliation of eight-100 (pocketbase-services.ts): the     *)
(* date normalizer, the existence prober, the idempotent creator, the      *)
(* batch reconciler and the mutation applier, against a record store with  *)
(* a unique index on daily_logs(task, user, date).                         *)
(*                                                                         *)
(* Strings are sequences of one-character strings, so that includes,       *)
(* split and the store's text comparison are computed, not assumed.        *)
(* The model covers a signed-in session (ensureAuthenticated passes).      *)
(***************************************************************************)
EXTENDS Integers, Sequences, FiniteSets, TLC

VARIABLES
  norm,    \* the normalizer applied to one date-like input
  store,   \* the daily_logs collection: a set of records
  upd,     \* the last updateDailyLog call: its input, what it sent, its outcome
  calls,   \* the createDailyLogIfNeeded calls: arguments, position, outcome
  runs,    \* the ensureDailyLogsExist runs: arguments, position, per-task result
  probe,   \* a getDailyLogByTaskAndDate call of its own: arguments, queries, outcome
  ui,      \* DailyTasksTab: the state a toggle handler captured, and its position
  goal     \* the goal_progress collection and the createOrUpdateGoalProgress calls

vars == <<norm, store, upd, calls, runs, probe, ui, goal>>

(***************************************************************************)
(* Bounds of the model                                                     *)
(***************************************************************************)
\* Number of calendar days the normalizer is fed (2024-01-14 onwards).
NumDays == 4

\* Number of logs in the store the mutation applier works on.
NumUpdLogs == 1

\* Number of concurrent createDailyLogIfNeeded calls on one (task, user, day).
NumCalls == 2

\* Number of tasks in the task list given to the runs made in succession.
NumTasks == 3

\* Number of createDailyLogIfNeeded calls made while a run is under way.
NumRaceCalls == 1

(***************************************************************************)
(* Components a specification leaves out                                   *)
(***************************************************************************)
\* normalizeDate is not under study.
NormIdle == [phase |-> "idle"]

\* updateDailyLog has not been called.
UpdIdle == [phase |-> "idle"]

\* No createDailyLogIfNeeded call is made.
NoCalls == << >>

\* No ensureDailyLogsExist run is made.
NoRuns == << >>

\* getDailyLogByTaskAndDate is not called on its own.
ProbeIdle == [pc |-> "idle"]

\* No toggle handler of DailyTasksTab runs.
UiIdle == [pc |-> "idle"]

\* createOrUpdateGoalProgress is not called.
GoalIdle == [pc |-> "idle"]

(***************************************************************************)
(* Strings                                                                 *)
(***************************************************************************)
\* The characters of date-like strings, in code-unit (ASCII) order.
Alphabet == <<" ", "+", "-", ".", "0", "1", "2", "3", "4", "5", "6", "7", "8",
              "9", ":", "G", "M", "T", "Z">>

CharOrd(c) == CHOOSE i \in 1..Len(Alphabet) : Alphabet[i] = c

Digit(n) == Alphabet[n + 5]

DigitVal(c) == CharOrd(c) - 5

\* String.prototype.includes for a one-character needle.
Includes(s, c) == \E i \in 1..Len(s) : s[i] = c

\* Index of the first occurrence of c in s (String.prototype.indexOf, 1-based).
IndexOf(s, c) == CHOOSE i \in 1..Len(s) : s[i] = c /\ \A j \in 1..(i - 1) : s[j] # c

\* Index of the last occurrence of c in s.
LastIndexOf(s, c) == CHOOSE i \in 1..Len(s) : s[i] = c /\ \A j \in (i + 1)..Len(s) : s[j] # c

\* s.split(c)[0]: the part of s before the first c (all of s without a c).
SplitFirst(s, c) == IF Includes(s, c) THEN SubSeq(s, 1, IndexOf(s, c) - 1) ELSE s

\* Text comparison of the store's filter (binary collation, code-unit order).
RECURSIVE StrLess(_, _)
StrLess(a, b) ==
  IF b = <<>> THEN FALSE
  ELSE IF a = <<>> THEN TRUE
  ELSE IF a[1] # b[1] THEN CharOrd(a[1]) < CharOrd(b[1])
  ELSE StrLess(Tail(a), Tail(b))

StrGeq(a, b) == ~StrLess(a, b)

(***************************************************************************)
(* Date Normalizer                                                         *)
(***************************************************************************)
\* A plausible slip: cut at the last 'T' instead of the first.
normalizeDate_lastT(date) ==
  IF Includes(date, "T") THEN SubSeq(date, 1, LastIndexOf(date, "T") - 1) ELSE date

normalizeDate(date) ==
  IF Includes(date, "T") THEN SplitFirst(date, "T") ELSE date

(***************************************************************************)
(* Date-like strings                                                       *)
(***************************************************************************)
MonthPrefix == <<"2", "0", "2", "4", "-", "0", "1", "-">>

\* The day key YYYY-MM-DD of day-of-month d, zero-padded.
DayKey(d) == MonthPrefix \o <<Digit(d \div 10), Digit(d % 10)>>

\* The days fed to the normalizer: 2024-01-14 onwards.
DayKeys == {DayKey(13 + k) : k \in 1..NumDays}

Midnight == <<"0", "0", ":", "0", "0", ":", "0", "0", ".", "0", "0", "0", "Z">>

TimesOfDay ==
  { Midnight,
    <<"1", "0", ":", "3", "0", ":", "0", "0", ".", "0", "0", "0", "Z">>,
    <<"2", "3", ":", "5", "9", ":", "5", "9", ".", "9", "9", "9", "Z">>,
    <<"0", "0", ":", "0", "0", ":", "0", "0">>,
    <<"1", "2", ":", "0", "0", ":", "0", "0", " ", "G", "M", "T">>,
    <<"0", "8", ":", "1", "5", ":", "0", "0", "+", "0", "1", ":", "0", "0">> }

\* ISO 8601 writes 'T' between date and time; the store's date type and SQL
\* write a space.
Separators == {"T", " "}

Timestamp(day, sep, time) == day \o <<sep>> \o time

\* A date-like input: its text, the calendar day it denotes, and how it is written.
DateLikeInputs ==
  { [text |-> d, day |-> d, sep |-> "none"] : d \in DayKeys }
  \cup
  { [text |-> Timestamp(d, s, t), day |-> d, sep |-> s] :
      d \in DayKeys, s \in Separators, t \in TimesOfDay }

(***************************************************************************)
(* The record store: collection daily_logs                                 *)
(***************************************************************************)
\* A JavaScript value v is <<v>>, null is <<>>, and an undefined property is
\* one the object does not have.
Just(v) == <<v>>

Null == <<>>

Users == {"u1", "u2"}

\* Task identities, in the order the task list holds them.
TaskList == <<"A", "B", "C", "D", "E">>

\* The store never enforces its unique index (a dropped or missing index).
UniqueViolation_none(st, data) == FALSE

\* The unique index on (task, user, date): a create that repeats the triple of
\* a stored record is rejected.
UniqueViolation(st, data) ==
  \E r \in st : r.task = data.task /\ r.user = data.user /\ r.date = data.date

\* The store assigns a fresh identity to every record it creates.
NextId(st) == Cardinality(st) + 1

\* The record a create stores: the fields sent, and no value for the others.
StoreInsert(st, data) ==
  st \cup { [id |-> NextId(st), task |-> data.task, user |-> data.user,
             date |-> data.date, value_bool |-> Just(data.value_bool),
             value_number |-> Null, note |-> Null] }

LogFields == {"value_bool", "value_number", "note"}

\* A store update (PATCH) sets the fields sent and leaves the others.
StorePatch(r, fields) ==
  [r EXCEPT !.value_bool = IF "value_bool" \in DOMAIN fields THEN fields["value_bool"] ELSE @,
            !.value_number = IF "value_number" \in DOMAIN fields THEN fields["value_number"] ELSE @,
            !.note = IF "note" \in DOMAIN fields THEN fields["note"] ELSE @]

StoreUpdate(st, logId, fields) ==
  { IF r.id = logId THEN StorePatch(r, fields) ELSE r : r \in st }

HasId(st, logId) == \E r \in st : r.id = logId

RecordOf(st, logId) == CHOOSE r \in st : r.id = logId

\* The date the creator and the reconciler send: new Date(day + 'T00:00:00.000Z')
\* .toISOString(), which is that same text for a valid day key.
isoDateString(normalizedDate) == Timestamp(normalizedDate, "T", Midnight)

\* A log born checked.
logData_checked(userId, taskId, normalizedDate) ==
  [task |-> taskId, date |-> isoDateString(normalizedDate), user |-> userId,
   value_bool |-> TRUE]

\* logData of ensureDailyLogsExist and createDailyLogIfNeeded.
logData(userId, taskId, normalizedDate) ==
  [task |-> taskId, date |-> isoDateString(normalizedDate), user |-> userId,
   value_bool |-> FALSE]

(***************************************************************************)
(* Store requests and their outcomes                                       *)
(***************************************************************************)
\* The day after a day key: new Date(day), setDate(getDate() + 1),
\* toISOString().split('T')[0] (within the month, on a day of 24 hours).
nextDateStr(normalizedDate) ==
  SubSeq(normalizedDate, 1, 8)
    \o LET d == 10 * DigitVal(normalizedDate[9]) + DigitVal(normalizedDate[10]) + 1
       IN <<Digit(d \div 10), Digit(d % 10)>>

\* The records the range filter of getDailyLogByTaskAndDate selects.
ProbeMatching(st, userId, taskId, normalizedDate) ==
  { r \in st : /\ r.user = userId
               /\ r.task = taskId
               /\ StrGeq(r.date, normalizedDate)
               /\ StrLess(r.date, nextDateStr(normalizedDate)) }

\* The records the filter of getDailyLogs(userId) selects.
UserLogs(st, userId) == { r \in st : r.user = userId }

QueryErrorStatuses == {400, 403, 500}

\* What a query can answer: the selected records (all of them, or only some
\* when the read is stale), a cancellation, or an error.
QueryResponses(matching) ==
  { [kind |-> "ok", items |-> V, accurate |-> (V = matching)] : V \in SUBSET matching }
  \cup { [kind |-> "cancelled"] }
  \cup { [kind |-> "error", status |-> n] : n \in QueryErrorStatuses }

\* Failures of a create other than the unique index: a validation error on
\* another field (400 with field data), a request the client layer cancelled
\* before or after the store applied it, a denied or failed request.
CreateFaults == {"validation", "cancelled", "cancelled_applied", "forbidden", "server_error"}

NoFaults == {}

\* What a create can answer under the given faults.
CreateResponses(st, data, faults) ==
  (IF UniqueViolation(st, data) THEN {"not_unique"} ELSE {"created"}) \cup faults

\* The shape of the error a failed create raises: its status, whether it
\* carries data, whether a field of the data has the code validation_not_unique,
\* whether its texts hold the words 'unique' or 'already exists', its message.
CreateError(response) ==
  CASE response = "not_unique" ->
         [status |-> 400, hasData |-> TRUE, uniqueCode |-> TRUE, saysUnique |-> TRUE, message |-> "Failed to create record."]
    [] response = "validation" ->
         [status |-> 400, hasData |-> TRUE, uniqueCode |-> FALSE, saysUnique |-> FALSE, message |-> "Failed to create record."]
    [] response \in {"cancelled", "cancelled_applied"} ->
         [status |-> 0, hasData |-> TRUE, uniqueCode |-> FALSE, saysUnique |-> FALSE, message |-> "autocancelled"]
    [] response = "forbidden" ->
         [status |-> 403, hasData |-> TRUE, uniqueCode |-> FALSE, saysUnique |-> FALSE, message |-> "forbidden"]
    [] OTHER ->
         [status |-> 500, hasData |-> FALSE, uniqueCode |-> FALSE, saysUnique |-> FALSE, message |-> "Something went wrong"]

\* A create that takes the place of the stored log of its triple.
StoreAfterCreate_replace(st, data, response) ==
  IF response \in {"created", "not_unique"}
  THEN StoreInsert({ r \in st : ~(r.task = data.task /\ r.user = data.user
                                   /\ r.date = data.date) }, data)
  ELSE st

\* The store after a create request with the given answer.
StoreAfterCreate(st, data, response) ==
  IF response = "created" \/ (response = "cancelled_applied" /\ ~UniqueViolation(st, data))
  THEN StoreInsert(st, data)
  ELSE st

(***************************************************************************)
(* getDailyLogs                                                            *)
(***************************************************************************)
\* The records the filter of getDailyLogs(userId, undefined, date) selects.
DayMatching(st, userId, normalizedDate) ==
  { r \in st : /\ r.user = userId
               /\ StrGeq(r.date, normalizedDate)
               /\ StrLess(r.date, nextDateStr(normalizedDate)) }

\* What getDailyLogs makes of the answer to its query: with a date, the items
\* of that normalized date; [] for a cancelled query; a thrown error otherwise.
getDailyLogs(resp, hasDate, date) ==
  CASE resp.kind = "ok" ->
         [kind |-> "return",
          items |-> IF hasDate
                    THEN { r \in resp.items : normalizeDate(r.date) = normalizeDate(date) }
                    ELSE resp.items]
    [] resp.kind = "cancelled" -> [kind |-> "return", items |-> {}]
    [] OTHER -> [kind |-> "throw", items |-> {}]

(***************************************************************************)
(* Existence Prober: getDailyLogByTaskAndDate                              *)
(***************************************************************************)
\* The loop runs attempts 0, 1, 2 ...
ProbeAttempts == 3

\* ... and a cancelled attempt is retried while attempt < 2.
ProbeLastRetry == 2

\* No record: the identity standing for null.
NoLog == 0

\* The in-memory filter forgets to normalize the stored date.
matchingLog_raw(items, normalizedDate) ==
  IF \E r \in items : r.date = normalizedDate
  THEN (CHOOSE r \in items : r.date = normalizedDate).id
  ELSE NoLog

\* The first item of the result is taken as it comes.
matchingLog_any(items, normalizedDate) ==
  IF items # {} THEN (CHOOSE r \in items : TRUE).id ELSE NoLog

\* records.items.find(item => normalizeDate(item.date) === normalizedDate)
matchingLog(items, normalizedDate) ==
  IF \E r \in items : normalizeDate(r.date) = normalizedDate
  THEN (CHOOSE r \in items : normalizeDate(r.date) = normalizedDate).id
  ELSE NoLog

\* The message of the error the prober throws for a failed query.
ProberError(status) ==
  CASE status = 400 -> "Invalid filter syntax"
    [] status = 403 -> "Access denied"
    [] OTHER -> "Failed to fetch daily log"

\* A prober that also retries a failed query.
ProberStep_retryErrors(q, resp, normalizedDate) ==
  CASE resp.kind = "ok" ->
         [kind |-> "return", value |-> matchingLog(resp.items, normalizedDate)]
    [] q + 1 < ProbeAttempts -> [kind |-> "retry", value |-> NoLog]
    [] resp.kind = "cancelled" -> [kind |-> "return", value |-> NoLog]
    [] OTHER ->
         [kind |-> "throw", value |-> NoLog, message |-> ProberError(resp.status)]

\* A prober that answers null to a failed query.
ProberStep_swallow(q, resp, normalizedDate) ==
  CASE resp.kind = "ok" ->
         [kind |-> "return", value |-> matchingLog(resp.items, normalizedDate)]
    [] resp.kind = "cancelled" /\ q < ProbeLastRetry ->
         [kind |-> "retry", value |-> NoLog]
    [] OTHER -> [kind |-> "return", value |-> NoLog]

\* One query of the prober, attempt q: it returns a log or null, retries, or
\* throws.
ProberStep(q, resp, normalizedDate) ==
  CASE resp.kind = "ok" ->
         [kind |-> "return", value |-> matchingLog(resp.items, normalizedDate)]
    [] resp.kind = "cancelled" ->
         IF q < ProbeLastRetry /\ q + 1 < ProbeAttempts
         THEN [kind |-> "retry", value |-> NoLog]
         ELSE [kind |-> "return", value |-> NoLog]
    [] OTHER ->
         [kind |-> "throw", value |-> NoLog, message |-> ProberError(resp.status)]

(***************************************************************************)
(* Idempotent Creator: createDailyLogIfNeeded                              *)
(***************************************************************************)
PrecheckAttempts == 3

ReprobeAttempts == 3

CallIds == 1..NumCalls

NewCall(userId, taskId, date) ==
  [pc |-> "precheck", userId |-> userId, taskId |-> taskId, date |-> date,
   attempt |-> 0, q |-> 0, outcome |-> "pending", ret |-> NoLog,
   created |-> FALSE, raced |-> FALSE, lastRead |-> "none", createAnswer |-> "none"]

Return(call, logId) == [call EXCEPT !.pc = "done", !.outcome = "returned", !.ret = logId]

Raise(call) == [call EXCEPT !.pc = "done", !.outcome = "raised"]

\* After a probe of the pre-check loop: a log found is returned; null and a
\* thrown error both lead to the next attempt, and after the last to the create.
AfterPrecheck(call, pr) ==
  IF pr.kind = "retry" THEN [call EXCEPT !.q = @ + 1]
  ELSE IF pr.kind = "return" /\ pr.value # NoLog THEN Return(call, pr.value)
  ELSE IF call.attempt + 1 < PrecheckAttempts
       THEN [call EXCEPT !.attempt = @ + 1, !.q = 0]
       ELSE [call EXCEPT !.pc = "create", !.attempt = 0, !.q = 0]

\* A uniqueness violation is raised like any other create failure.
isLostRace_never(error) == FALSE

\* hasUniqueError || (error.status === 400 && errorData)
isLostRace(error) ==
  (error.hasData /\ error.uniqueCode) \/ (error.status = 400 /\ error.hasData)

\* After the create: the record is returned; a lost race goes on to re-probe;
\* any other failure is raised.
AfterCreate(call, response, newId) ==
  IF response = "created" THEN [Return(call, newId) EXCEPT !.created = TRUE]
  ELSE IF isLostRace(CreateError(response))
       THEN [call EXCEPT !.pc = "reprobe", !.attempt = 0, !.q = 0, !.raced = TRUE]
       ELSE Raise(call)

\* A re-probe loop that ends in another create request.
AfterReprobe_recreate(call, pr) ==
  IF pr.kind = "retry" THEN [call EXCEPT !.q = @ + 1]
  ELSE IF pr.kind = "return" /\ pr.value # NoLog THEN Return(call, pr.value)
  ELSE IF call.attempt + 1 < ReprobeAttempts
       THEN [call EXCEPT !.attempt = @ + 1, !.q = 0]
       ELSE [call EXCEPT !.pc = "create", !.attempt = 0, !.q = 0]

\* After a probe of the re-probe loop: a log found is returned; null and a
\* thrown error lead to the next attempt, and after the last to the full fetch.
AfterReprobe(call, pr) ==
  IF pr.kind = "retry" THEN [call EXCEPT !.q = @ + 1]
  ELSE IF pr.kind = "return" /\ pr.value # NoLog THEN Return(call, pr.value)
  ELSE IF call.attempt + 1 < ReprobeAttempts
       THEN [call EXCEPT !.attempt = @ + 1, !.q = 0]
       ELSE [call EXCEPT !.pc = "fetchall", !.attempt = 0, !.q = 0]

\* allLogs.find(log => log.task === taskId && normalizeDate(log.date) === normalizedDate)
scanAllLogs(items, taskId, normalizedDate) ==
  matchingLog({ r \in items : r.task = taskId }, normalizedDate)

\* A fallback whose failed fetch escapes.
AfterFetchAll_raise(call, resp) ==
  LET fetched == getDailyLogs(resp, FALSE, << >>)
  IN IF fetched.kind = "return"
     THEN Return(call, scanAllLogs(fetched.items, call.taskId, normalizeDate(call.date)))
     ELSE Raise(call)

\* getDailyLogs(userId) and the scan: a cancelled fetch gives [], a failed one
\* throws and is caught; both end in null.
AfterFetchAll(call, resp) ==
  LET fetched == getDailyLogs(resp, FALSE, << >>)
  IN IF fetched.kind = "return"
     THEN Return(call, scanAllLogs(fetched.items, call.taskId, normalizeDate(call.date)))
     ELSE Return(call, NoLog)

\* Whether a read was answered with everything the store holds for it, or was
\* stale, cancelled or failed.
ReadKind(resp) == IF resp.kind = "ok" /\ resp.accurate THEN "accurate" ELSE "disturbed"

\* The kinds of answer a query can get.
AnswerKinds == {"ok", "cancelled", "error"}

\* The answers of the given kinds among those a query can get.
Answers(matching, kinds) == { resp \in QueryResponses(matching) : resp.kind \in kinds }

\* A query of the prober, in the pre-check or the re-probe loop, answered in
\* one of the given kinds.
CreatorProbeAnswered(c, kinds) ==
  /\ calls[c].pc \in {"precheck", "reprobe"}
  /\ LET call == calls[c]
         nd == normalizeDate(call.date)
     IN \E resp \in Answers(ProbeMatching(store, call.userId, call.taskId, nd), kinds) :
          LET pr == ProberStep(call.q, resp, nd)
              seen == [call EXCEPT !.lastRead = ReadKind(resp)]
          IN calls' = [calls EXCEPT ![c] =
                         IF call.pc = "precheck" THEN AfterPrecheck(seen, pr)
                                                 ELSE AfterReprobe(seen, pr)]
  /\ UNCHANGED <<norm, store, upd, runs, probe, ui, goal>>

\* A query of the prober, in the pre-check or the re-probe loop.
CreatorProbe(c) == CreatorProbeAnswered(c, AnswerKinds)

\* The create request.
CreatorCreate(c, faults) ==
  /\ calls[c].pc = "create"
  /\ LET call == calls[c]
         data == logData(call.userId, call.taskId, normalizeDate(call.date))
     IN \E response \in CreateResponses(store, data, faults) :
          /\ store' = StoreAfterCreate(store, data, response)
          /\ calls' = [calls EXCEPT ![c] =
                         AfterCreate([call EXCEPT !.createAnswer = response],
                                     response, NextId(store))]
  /\ UNCHANGED <<norm, upd, runs, probe, ui, goal>>

\* The fallback: fetch the user's full log set and scan it; the fetch is
\* answered in one of the given kinds.
CreatorFetchAllAnswered(c, kinds) ==
  /\ calls[c].pc = "fetchall"
  /\ LET call == calls[c]
     IN \E resp \in Answers(UserLogs(store, call.userId), kinds) :
          calls' = [calls EXCEPT ![c] =
                      AfterFetchAll([call EXCEPT !.lastRead = ReadKind(resp)], resp)]
  /\ UNCHANGED <<norm, store, upd, runs, probe, ui, goal>>

\* The fallback: fetch the user's full log set and scan it.
CreatorFetchAll(c) == CreatorFetchAllAnswered(c, AnswerKinds)

(***************************************************************************)
(* Concurrent creator calls on one (task, user, day)                       *)
(***************************************************************************)
\* The ways a caller writes the day: the bare key, or a timestamp of it.
DateArguments(day) == { day, Timestamp(day, "T", Midnight) }

\* Logs other reconciliations left: the same task on the day before and the day
\* after, and another user's log of the same task and day.
Neighbours(userId, taskId, d) ==
  { logData(userId, taskId, DayKey(d - 1)), logData(userId, taskId, DayKey(d + 1)),
    logData(CHOOSE u \in Users : u # userId, taskId, DayKey(d)) }

RECURSIVE Seeded(_)
Seeded(datas) ==
  IF datas = {} THEN {}
  ELSE LET x == CHOOSE y \in datas : TRUE IN StoreInsert(Seeded(datas \ {x}), x)

\* The store holds the neighbours and, possibly, the log the calls are about;
\* each call writes the day in its own way.
InitCreate ==
  /\ norm = NormIdle
  /\ upd = UpdIdle
  /\ \E present \in BOOLEAN :
       store = Seeded(Neighbours("u1", TaskList[1], 15)
                        \cup (IF present THEN {logData("u1", TaskList[1], DayKey(15))} ELSE {}))
  /\ calls \in [CallIds -> { NewCall("u1", TaskList[1], a) : a \in DateArguments(DayKey(15)) }]
  /\ runs = NoRuns
  /\ probe = ProbeIdle
  /\ ui = UiIdle
  /\ goal = GoalIdle

NextCreate ==
  \E c \in CallIds :
    \/ CreatorProbe(c)
    \/ CreatorCreate(c, NoFaults)
    \/ CreatorFetchAll(c)

SpecCreate == InitCreate /\ [][NextCreate]_vars

(***************************************************************************)
(* Creator calls whose requests are cancelled, refused or see stale data   *)
(***************************************************************************)
\* One call on a (task, user, day) whose log the store may hold; the call writes
\* the day in one of its forms.
FaultyCallIds == {1}

InitFaulty ==
  /\ norm = NormIdle
  /\ upd = UpdIdle
  /\ \E present \in BOOLEAN :
       store = Seeded(Neighbours("u1", TaskList[1], 15)
                        \cup (IF present THEN {logData("u1", TaskList[1], DayKey(15))} ELSE {}))
  /\ calls \in [FaultyCallIds -> { NewCall("u1", TaskList[1], a) : a \in DateArguments(DayKey(15)) }]
  /\ runs = NoRuns
  /\ probe = ProbeIdle
  /\ ui = UiIdle
  /\ goal = GoalIdle

NextFaulty ==
  \E c \in FaultyCallIds :
    \/ CreatorProbe(c)
    \/ CreatorCreate(c, CreateFaults)
    \/ CreatorFetchAll(c)

\* Every request a call awaits is answered, by a response or by an error.
SpecFaulty == InitFaulty /\ [][NextFaulty]_vars /\ WF_vars(NextFaulty)

(***************************************************************************)
(* Creator calls against a store that fails every read                     *)
(***************************************************************************)
\* The collection refuses or fails every list request (a list rule that
\* denies, a filter it rejects, a server error), and takes creates.
InitDenied == InitCreate

NextDenied ==
  \E c \in CallIds :
    \/ CreatorProbeAnswered(c, {"error"})
    \/ CreatorCreate(c, CreateFaults)
    \/ CreatorFetchAllAnswered(c, {"error"})

SpecDenied == InitDenied /\ [][NextDenied]_vars

(***************************************************************************)
(* The prober called on its own, over a store it only reads                *)
(***************************************************************************)
\* No answer yet.
NoAnswer == [kind |-> "none"]

\* A call getDailyLogByTaskAndDate(userId, taskId, date): the attempt q of its
\* loop, the number of queries issued and of those cancelled, the last answer.
NewProbe(userId, taskId, date) ==
  [pc |-> "query", userId |-> userId, taskId |-> taskId, date |-> date,
   q |-> 0, queries |-> 0, cancelled |-> 0, last |-> NoAnswer,
   outcome |-> "pending", ret |-> NoLog, message |-> "none"]

\* The call after the answer to a query of it.
AfterQuery(p, resp) ==
  LET step == ProberStep(p.q, resp, normalizeDate(p.date))
      asked == [p EXCEPT !.queries = @ + 1,
                         !.cancelled = IF resp.kind = "cancelled" THEN @ + 1 ELSE @,
                         !.last = resp]
  IN CASE step.kind = "retry" -> [asked EXCEPT !.q = @ + 1]
       [] step.kind = "return" ->
            [asked EXCEPT !.pc = "done", !.outcome = "returned", !.ret = step.value]
       [] OTHER ->
            [asked EXCEPT !.pc = "done", !.outcome = "raised", !.message = step.message]

\* One query of the call and what the call does with its answer.
ProberQuery ==
  /\ probe.pc = "query"
  /\ \E resp \in QueryResponses(ProbeMatching(store, probe.userId, probe.taskId,
                                              normalizeDate(probe.date))) :
       probe' = AfterQuery(probe, resp)
  /\ UNCHANGED <<norm, store, upd, calls, runs, ui, goal>>

\* Logs of the probed user, task and day as writers may have left them: the
\* text this code sends, the bare day the schema describes, and a timestamp
\* written with a space.
SameDayWritings(userId, taskId, day) ==
  { logData(userId, taskId, day),
    [logData(userId, taskId, day) EXCEPT !.date = day],
    [logData(userId, taskId, day) EXCEPT !.date = Timestamp(day, " ", Midnight)] }

\* The store holds the neighbours of the probed log, another task's log of the
\* day, and any of the writings of the probed log.
InitProbe ==
  /\ norm = NormIdle
  /\ upd = UpdIdle
  /\ calls = NoCalls
  /\ runs = NoRuns
  /\ \E present \in SUBSET SameDayWritings("u1", TaskList[1], DayKey(15)) :
       store = Seeded(Neighbours("u1", TaskList[1], 15)
                        \cup {logData("u1", TaskList[2], DayKey(15))} \cup present)
  /\ \E date \in DateArguments(DayKey(15)) :
       probe = NewProbe("u1", TaskList[1], date)
  /\ ui = UiIdle
  /\ goal = GoalIdle

NextProbe == ProberQuery

SpecProbe == InitProbe /\ [][NextProbe]_vars

(***************************************************************************)
(* Batch Reconciler: ensureDailyLogsExist                                  *)
(***************************************************************************)
DoubleCheckAttempts == 2

\* The runs: one call of ensureDailyLogsExist and the call that follows it.
RunIds == {"first", "second"}

Range(seq) == { seq[k] : k \in 1..Len(seq) }

IdleRun == [pc |-> "idle"]

\* A run called with (userId, tasks, date); pre is the set of its tasks that
\* have a log when it is called, logCount the number of logs in the store then;
\* covered is existingTaskIds once the snapshot is taken, and requests tells
\* whether the run has issued no store request, one, or several.
NewRun(userId, tasks, date, st) ==
  [pc |-> IF Len(tasks) = 0 THEN "done" ELSE "snapshot",
   userId |-> userId, tasks |-> tasks, date |-> date,
   need |-> << >>, i |-> 0, attempt |-> 0, q |-> 0,
   covered |-> {}, requests |-> "none",
   outcome |-> IF Len(tasks) = 0 THEN "returned" ELSE "pending",
   result |-> [t \in Range(tasks) |-> "unprocessed"],
   logCount |-> Cardinality(st),
   pre |-> { t \in Range(tasks) :
               \E r \in st : r.user = userId /\ r.task = t
                             /\ normalizeDate(r.date) = normalizeDate(date) }]

\* existingTaskIds: the tasks of the snapshot's logs of the day.
existingTaskIds(existingLogs, normalizedDate) ==
  { r.task : r \in { l \in existingLogs : normalizeDate(l.date) = normalizedDate } }

\* Every task is taken as uncovered.
tasksNeedingLogs_all(tasks, existing) == tasks

\* tasksNeedingLogs: the tasks, in input order, that the snapshot does not cover.
tasksNeedingLogs(tasks, existing) ==
  LET uncovered(t) == t \notin existing IN SelectSeq(tasks, uncovered)

\* A loop that leaves a task behind.
NextTask_leap(run) ==
  IF run.i + 1 < Len(run.need)
  THEN [run EXCEPT !.pc = "check", !.i = @ + 2, !.attempt = 0, !.q = 0]
  ELSE [run EXCEPT !.pc = "done", !.outcome = "returned"]

\* The loop over tasksNeedingLogs moves to its next task, or the run returns.
NextTask(run) ==
  IF run.i < Len(run.need)
  THEN [run EXCEPT !.pc = "check", !.i = @ + 1, !.attempt = 0, !.q = 0]
  ELSE [run EXCEPT !.pc = "done", !.outcome = "returned"]

\* A run that a failed snapshot fetch ends.
AfterSnapshot_abort(run, resp) ==
  LET nd == normalizeDate(run.date)
      fetched == getDailyLogs(resp, TRUE, nd)
      existing == existingTaskIds(fetched.items, nd)
  IN IF fetched.kind = "throw"
     THEN [run EXCEPT !.pc = "done", !.outcome = "raised"]
     ELSE NextTask([run EXCEPT !.need = tasksNeedingLogs(run.tasks, existing), !.i = 0,
                      !.covered = existing,
                      !.result = [t \in DOMAIN run.result |->
                                    IF t \in existing THEN "exists" ELSE "unprocessed"]])

\* After the snapshot: a failed or cancelled fetch leaves existingLogs empty.
AfterSnapshot(run, resp) ==
  LET nd == normalizeDate(run.date)
      fetched == getDailyLogs(resp, TRUE, nd)
      existingLogs == IF fetched.kind = "return" THEN fetched.items ELSE {}
      existing == existingTaskIds(existingLogs, nd)
      need == tasksNeedingLogs(run.tasks, existing)
  IN NextTask([run EXCEPT !.need = need, !.i = 0, !.covered = existing,
                 !.result = [t \in DOMAIN run.result |->
                               IF t \in existing THEN "exists" ELSE "unprocessed"]])

\* After a probe of the double-check: a log found skips the task; null leads to
\* the second attempt and then to the create; a thrown error breaks the loop
\* and leads to the create.
AfterDoubleCheck(run, pr) ==
  IF pr.kind = "retry" THEN [run EXCEPT !.q = @ + 1]
  ELSE IF pr.kind = "return" /\ pr.value # NoLog
       THEN NextTask([run EXCEPT !.result[run.need[run.i]] = "exists"])
  ELSE IF pr.kind = "return" /\ run.attempt + 1 < DoubleCheckAttempts
       THEN [run EXCEPT !.attempt = @ + 1, !.q = 0]
       ELSE [run EXCEPT !.pc = "create", !.attempt = 0, !.q = 0]

\* hasUniqueError || (error?.status === 400 && errorData), as the reconciler
\* reads it: the code, or the words of the message.
reconIsDuplicate(error) ==
  \/ error.hasData /\ error.uniqueCode
  \/ error.saysUnique
  \/ error.status = 400 /\ error.hasData

\* A run that gives up at the first duplicate: the rest of the tasks is left.
AfterReconCreate_break(run, response) ==
  IF response = "created"
  THEN NextTask([run EXCEPT !.result[run.need[run.i]] = "created"])
  ELSE IF response = "not_unique"
       THEN [run EXCEPT !.pc = "done", !.outcome = "returned",
                        !.result[run.need[run.i]] = "exists"]
       ELSE NextTask([run EXCEPT !.result[run.need[run.i]] = "failed"])

\* A run that lets a fatal create failure escape.
AfterReconCreate_rethrow(run, response) ==
  IF response = "created"
  THEN NextTask([run EXCEPT !.result[run.need[run.i]] = "created"])
  ELSE IF response = "not_unique"
       THEN NextTask([run EXCEPT !.result[run.need[run.i]] = "exists"])
       ELSE [run EXCEPT !.pc = "done", !.outcome = "raised",
                        !.result[run.need[run.i]] = "failed"]

\* After the create of a task: created; skipped as a duplicate (silently), or
\* logged with a warning; in every case the loop goes on.  The result keeps
\* whether the store rejected a duplicate ("exists") or the create failed for
\* another reason ("failed"), whichever way the code read the error.
AfterReconCreate(run, response) ==
  IF response = "created"
  THEN NextTask([run EXCEPT !.result[run.need[run.i]] = "created"])
  ELSE IF reconIsDuplicate(CreateError(response))
       THEN NextTask([run EXCEPT !.result[run.need[run.i]] =
                        IF response = "not_unique" THEN "exists" ELSE "failed"])
       ELSE NextTask([run EXCEPT !.result[run.need[run.i]] = "failed"])

\* The run issues a store request.
Asked(run) ==
  [run EXCEPT !.requests = IF @ = "none" THEN "one" ELSE "several"]

\* The call of ensureDailyLogsExist(userId, tasks, date).
ReconStart(r, userId, tasks, date) ==
  /\ runs[r].pc = "idle"
  /\ runs' = [runs EXCEPT ![r] = NewRun(userId, tasks, date, store)]
  /\ UNCHANGED <<norm, store, upd, calls, probe, ui, goal>>

\* The snapshot: getDailyLogs(userId, undefined, normalizedDate), answered in
\* one of the given kinds.
ReconSnapshotAnswered(r, kinds) ==
  /\ runs[r].pc = "snapshot"
  /\ LET run == runs[r]
     IN \E resp \in Answers(DayMatching(store, run.userId, normalizeDate(run.date)), kinds) :
          runs' = [runs EXCEPT ![r] = AfterSnapshot(Asked(run), resp)]
  /\ UNCHANGED <<norm, store, upd, calls, probe, ui, goal>>

\* The snapshot: getDailyLogs(userId, undefined, normalizedDate).
ReconSnapshot(r) == ReconSnapshotAnswered(r, AnswerKinds)

\* A query of the prober in the double-check of the current task.
ReconProbe(r) ==
  /\ runs[r].pc = "check"
  /\ LET run == runs[r]
         nd == normalizeDate(run.date)
     IN \E resp \in QueryResponses(ProbeMatching(store, run.userId, run.need[run.i], nd)) :
          runs' = [runs EXCEPT ![r] =
                     AfterDoubleCheck(Asked(run), ProberStep(run.q, resp, nd))]
  /\ UNCHANGED <<norm, store, upd, calls, probe, ui, goal>>

\* The create of the current task.
ReconCreate(r, faults) ==
  /\ runs[r].pc = "create"
  /\ LET run == runs[r]
         data == logData(run.userId, run.need[run.i], normalizeDate(run.date))
     IN \E response \in CreateResponses(store, data, faults) :
          /\ store' = StoreAfterCreate(store, data, response)
          /\ runs' = [runs EXCEPT ![r] = AfterReconCreate(Asked(run), response)]
  /\ UNCHANGED <<norm, upd, calls, probe, ui, goal>>

(***************************************************************************)
(* Runs in succession for one (user, day, task set)                        *)
(***************************************************************************)
\* The first n tasks of the task list.
FirstTasks(n) == SubSeq(TaskList, 1, n)

InitRecon ==
  /\ norm = NormIdle
  /\ upd = UpdIdle
  /\ calls = NoCalls
  /\ \E pre \in {{}, {TaskList[1]}} :
       store = Seeded(Neighbours("u1", TaskList[1], 15)
                        \cup { logData("u1", t, DayKey(15)) : t \in pre })
  /\ runs = [r \in RunIds |-> IdleRun]
  /\ probe = ProbeIdle
  /\ ui = UiIdle
  /\ goal = GoalIdle

\* The run before run r, if any, has returned.
InSuccession(r) == IF r = "first" THEN TRUE ELSE runs["first"].pc = "done"

\* A run starts when the one before it has returned.
SuccessionStart(r) ==
  /\ InSuccession(r)
  /\ \E date \in DateArguments(DayKey(15)) :
       ReconStart(r, "u1", FirstTasks(NumTasks), date)

NextRecon ==
  \E r \in RunIds :
    \/ SuccessionStart(r)
    \/ ReconSnapshot(r)
    \/ ReconProbe(r)
    \/ ReconCreate(r, CreateFaults)

SpecRecon == InitRecon /\ [][NextRecon]_vars

(***************************************************************************)
(* Runs whose snapshot fetch fails or is cancelled                         *)
(***************************************************************************)
InitBlind == InitRecon

NextBlind ==
  \E r \in RunIds :
    \/ SuccessionStart(r)
    \/ ReconSnapshotAnswered(r, {"cancelled", "error"})
    \/ ReconProbe(r)
    \/ ReconCreate(r, CreateFaults)

SpecBlind == InitBlind /\ [][NextBlind]_vars

(***************************************************************************)
(* A run and creator calls at the same time, the store failing at will     *)
(***************************************************************************)
RaceCallIds == 1..NumRaceCalls

\* One run is made.
RaceRunIds == {"first"}

\* The task list of the run; the calls are on its first task.
RaceTasks == <<TaskList[1], TaskList[2]>>

Init ==
  /\ norm = NormIdle
  /\ upd = UpdIdle
  /\ \E pre \in {{}, {TaskList[1]}} :
       store = Seeded(Neighbours("u1", TaskList[1], 15)
                        \cup { logData("u1", t, DayKey(15)) : t \in pre })
  /\ calls = [c \in RaceCallIds |-> NewCall("u1", RaceTasks[1], DayKey(15))]
  /\ runs = [r \in RaceRunIds |-> IdleRun]
  /\ probe = ProbeIdle
  /\ ui = UiIdle
  /\ goal = GoalIdle

\* The run is called, with the day in one of its forms.
RaceStart(r) ==
  \E date \in DateArguments(DayKey(15)) : ReconStart(r, "u1", RaceTasks, date)

Next ==
  \/ \E c \in RaceCallIds : CreatorProbe(c)
  \/ \E c \in RaceCallIds : CreatorCreate(c, CreateFaults)
  \/ \E c \in RaceCallIds : CreatorFetchAll(c)
  \/ \E r \in RaceRunIds : RaceStart(r)
  \/ \E r \in RaceRunIds : ReconSnapshot(r)
  \/ \E r \in RaceRunIds : ReconProbe(r)
  \/ \E r \in RaceRunIds : ReconCreate(r, CreateFaults)

Spec == Init /\ [][Next]_vars

(***************************************************************************)
(* Mutation Applier: updateDailyLog                                        *)
(***************************************************************************)
BoolValues == {Just(TRUE), Just(FALSE), Null}

NumberValues == {Just(7), Null}

NoteValues == {Just(""), Just("gym")}

\* What an input object can hold for a field: nothing (the property is
\* undefined), null, or a value.
FieldChoices(values) ==
  {[present |-> FALSE, v |-> Null]} \cup {[present |-> TRUE, v |-> x] : x \in values}

SparseObject(b, n, t) ==
  LET choice(f) == CASE f = "value_bool" -> b [] f = "value_number" -> n [] f = "note" -> t
  IN [f \in {g \in LogFields : choice(g).present} |-> choice(f).v]

\* The sparse inputs of updateDailyLog.
SparseInputs ==
  { SparseObject(b, n, t) : b \in FieldChoices(BoolValues),
                            n \in FieldChoices(NumberValues),
                            t \in FieldChoices(NoteValues) }

Provided(data, f) == f \in DOMAIN data /\ data[f] # Null

\* A plausible slip: the whole DailyLog shape is sent, absent fields as null.
cleanData_full(data) ==
  [f \in LogFields |-> IF f \in DOMAIN data THEN data[f] ELSE Null]

\* cleanData as updateDailyLog builds it.
cleanData(data) ==
  LET keep == { f \in LogFields :
                  \/ f = "value_bool" /\ Provided(data, f)
                  \/ f = "value_number" /\ Provided(data, f)
                  \/ f = "note" /\ Provided(data, f) /\ data[f] # Just("") }
  IN [f \in keep |-> data[f]]

\* What the store can answer to an update.
UpdateResponses(st, logId) ==
  (IF HasId(st, logId) THEN {"ok"} ELSE {"not_found"})
  \cup {"bad_request", "forbidden", "server_error"}

\* An applier with one message for every failure.
UpdateError_generic(response) == "Failed to update daily log"

\* The error updateDailyLog throws for a failed update.
UpdateError(response) ==
  CASE response = "bad_request" -> "Failed to update"
    [] response = "forbidden" -> "Access denied"
    [] OTHER -> "Failed to update daily log"

\* An identity no record has.
MissingId == 0

\* An applier that answers a missing record by creating one.
updateDailyLog_upsert(logId, data) ==
  \E response \in UpdateResponses(store, logId) :
    LET sent == cleanData(data)
        settled == response \in {"ok", "not_found"} IN
    /\ store' = CASE response = "ok" -> StoreUpdate(store, logId, sent)
                  [] response = "not_found" ->
                       StoreInsert(store, logData("u1", TaskList[1], DayKey(15)))
                  [] OTHER -> store
    /\ upd' = [phase |-> "done", logId |-> logId, data |-> data, sent |-> sent,
               response |-> response,
               outcome |-> IF settled THEN "returned" ELSE "raised",
               error |-> IF settled THEN "none" ELSE UpdateError(response)]

updateDailyLog(logId, data) ==
  \E response \in UpdateResponses(store, logId) :
    LET sent == cleanData(data) IN
    /\ store' = IF response = "ok" THEN StoreUpdate(store, logId, sent) ELSE store
    /\ upd' = [phase |-> "done", logId |-> logId, data |-> data, sent |-> sent,
               response |-> response,
               outcome |-> IF response = "ok" THEN "returned" ELSE "raised",
               error |-> IF response = "ok" THEN "none" ELSE UpdateError(response)]

UpdateDailyLogCall ==
  /\ \E logId \in {r.id : r \in store} \cup {MissingId}, data \in SparseInputs :
       updateDailyLog(logId, data)
  /\ UNCHANGED <<norm, calls, runs, probe, ui, goal>>

\* The applier on a day's freshly reconciled logs (as the reconciler creates
\* them for the first tasks of the list).
InitUpdate ==
  /\ norm = NormIdle
  /\ \E n \in 0..NumUpdLogs :
       store = { [id |-> i, task |-> TaskList[i], user |-> "u1",
                  date |-> isoDateString(DayKey(15)),
                  value_bool |-> Just(FALSE), value_number |-> Null, note |-> Null] :
                    i \in 1..n }
  /\ upd = UpdIdle
  /\ calls = NoCalls
  /\ runs = NoRuns
  /\ probe = ProbeIdle
  /\ ui = UiIdle
  /\ goal = GoalIdle

NextUpdate == UpdateDailyLogCall

SpecUpdate == InitUpdate /\ [][NextUpdate]_vars

(***************************************************************************)
(* The normalizer applied to date-like inputs, once and twice              *)
(***************************************************************************)
InitNorm ==
  /\ \E x \in DateLikeInputs :
       norm = [phase |-> "input", x |-> x.text, day |-> x.day, sep |-> x.sep]
  /\ store = {}
  /\ upd = UpdIdle
  /\ calls = NoCalls
  /\ runs = NoRuns
  /\ probe = ProbeIdle
  /\ ui = UiIdle
  /\ goal = GoalIdle

NormalizeOnce ==
  /\ norm.phase = "input"
  /\ norm' = [norm EXCEPT !.phase = "once"] @@ [y |-> normalizeDate(norm.x)]
  /\ UNCHANGED <<store, upd, calls, runs, probe, ui, goal>>

NormalizeTwice ==
  /\ norm.phase = "once"
  /\ norm' = [norm EXCEPT !.phase = "twice"] @@ [z |-> normalizeDate(norm.y)]
  /\ UNCHANGED <<store, upd, calls, runs, probe, ui, goal>>

NextNorm == NormalizeOnce \/ NormalizeTwice

SpecNorm == InitNorm /\ [][NextNorm]_vars

(***************************************************************************)
(* DailyTasksTab: the toggle handlers                                      *)
(***************************************************************************)
\* todayStr, the day the tab shows.
Today == DayKey(15)

\* tasksData, the user's daily tasks as getTasks returns them.
UiTasks == <<TaskList[1]>>

UiCallIds == {1}

UiRunIds == {"first"}

IdleCall == [pc |-> "idle"]

\* What numberInputValues holds under the task's key: nothing, '' or a number.
NumberInputs ==
  { [kind |-> "undefined"], [kind |-> "empty"], [kind |-> "number", value |-> 5] }

ReloadAttempts == 3

\* getLogForTask over the logs the handler's render holds.
getLogForTask(logs, taskId, date) ==
  LET normalizedTargetDate == normalizeDate(date)
      found == { log \in logs : /\ log.task = taskId
                                /\ normalizeDate(log.date) = normalizedTargetDate }
  IN IF found = {} THEN Null ELSE Just(CHOOSE log \in found : TRUE)

\* existingLog.value_bool ?? false
currentValue(log) == IF log.value_bool = Null THEN FALSE ELSE log.value_bool[1]

\* The update of the checklist handler.
checklistUpdateData(newValue) == [f \in {"value_bool"} |-> Just(newValue)]

\* A number handler that sends the number input whenever it holds a number.
numberUpdateData_always(newValue, numberValue) ==
  [f \in {"value_bool"} \cup (IF numberValue.kind = "number" THEN {"value_number"} ELSE {}) |->
     IF f = "value_bool" THEN Just(newValue) ELSE Just(numberValue.value)]

\* updateData of the number handler: value_number goes with a checking toggle
\* whose input is neither undefined nor ''.
numberUpdateData(newValue, numberValue) ==
  LET withNumber == newValue /\ numberValue.kind # "undefined" /\ numberValue.kind # "empty"
  IN [f \in {"value_bool"} \cup (IF withNumber THEN {"value_number"} ELSE {}) |->
        IF f = "value_bool" THEN Just(newValue) ELSE Just(numberValue.value)]

\* The tab as rendered, before a toggle: logs and numberInputValues are what
\* the handlers of this render read; shown is what setLogs set last.
ReadyUi(logs, numberInput) ==
  [pc |-> "ready", kind |-> "none", taskId |-> TaskList[1], date |-> Today,
   logs |-> logs, shown |-> logs, numberInput |-> numberInput,
   existingLog |-> Null, next |-> "none", attempt |-> 0, load |-> "none",
   outcome |-> "pending"]

\* await loadData(), to be followed by the given continuation.
StartLoad(u, next, attempt) ==
  [u EXCEPT !.pc = "load", !.load = "tasks", !.next = next, !.attempt = attempt]

\* The handler returns.
Finish(u, outcome) ==
  [u EXCEPT !.pc = "done", !.load = "none", !.next = "none", !.outcome = outcome]

\* The handler goes on to its update.
ToUpdate(u) == [u EXCEPT !.pc = "update", !.load = "none", !.next = "none"]

\* What follows a loadData: the update, a look at the render's logs and
\* another reload or an alert, or the end of the handler.
AfterLoad(u) ==
  LET looked == [u EXCEPT !.existingLog = getLogForTask(u.logs, u.taskId, u.date)]
      found == looked.existingLog # Null
  IN CASE u.next = "update" -> ToUpdate(u)
       [] u.next = "finish" -> Finish(u, "updated")
       [] u.next \in {"retry_null", "retry_error"} ->
            IF found THEN ToUpdate(looked)
            ELSE IF u.attempt + 1 < ReloadAttempts
                 THEN StartLoad(looked, u.next, u.attempt + 1)
                 ELSE Finish(looked, "alert_failed_to_create")
       [] u.next = "relook" ->
            IF found THEN ToUpdate(looked) ELSE Finish(looked, "alert_log_not_found")
       [] u.next = "relook_null" ->
            IF found THEN ToUpdate(looked)
            ELSE IF u.attempt = 0
                 THEN StartLoad(looked, u.next, 1)
                 ELSE Finish(looked, "alert_failed_to_create")
       [] u.next = "relook_error" ->
            IF found THEN ToUpdate(looked) ELSE Finish(looked, "alert_failed_to_create")

\* handleChecklistToggle or handleNumberCheckboxToggle is called on the task:
\* the log is looked up in the render's logs and, when missing, asked of
\* createDailyLogIfNeeded.
ToggleStart(kind) ==
  /\ ui.pc = "ready"
  /\ LET normalizedDate == normalizeDate(ui.date)
         existingLog == getLogForTask(ui.logs, ui.taskId, normalizedDate)
         started == [ui EXCEPT !.kind = kind, !.date = normalizedDate,
                               !.existingLog = existingLog]
     IN IF existingLog # Null
        THEN /\ ui' = ToUpdate(started)
             /\ UNCHANGED calls
        ELSE /\ ui' = [started EXCEPT !.pc = "create"]
             /\ calls' = [c \in UiCallIds |-> NewCall("u1", ui.taskId, normalizedDate)]
  /\ UNCHANGED <<norm, store, upd, runs, probe, goal>>

\* createDailyLogIfNeeded has settled: a log returned is used; null leads to
\* the direct fetch (checklist) or to a reload (number); an error to reloads.
ToggleAfterCreate ==
  /\ ui.pc = "create"
  /\ \E c \in UiCallIds :
       /\ calls[c].pc = "done"
       /\ LET call == calls[c]
              created == call.outcome = "returned" /\ call.ret # NoLog
              direct == call.outcome = "returned" /\ call.ret = NoLog /\ ui.kind = "checklist"
          IN /\ ui' = CASE created ->
                             StartLoad([ui EXCEPT !.existingLog = Just(RecordOf(store, call.ret))],
                                       IF ui.kind = "checklist" THEN "update" ELSE "relook", 0)
                        [] direct -> [ui EXCEPT !.pc = "fetch"]
                        [] call.outcome = "returned" /\ ~created /\ ~direct ->
                             StartLoad(ui, "relook_null", 0)
                        [] OTHER ->
                             StartLoad(ui, IF ui.kind = "checklist" THEN "retry_error"
                                                                    ELSE "relook_error", 0)
             /\ probe' = IF direct THEN NewProbe("u1", ui.taskId, ui.date) ELSE probe
  /\ UNCHANGED <<norm, store, upd, calls, runs, goal>>

\* The direct fetch of the checklist handler has settled.
ToggleAfterFetch ==
  /\ ui.pc = "fetch"
  /\ probe.pc = "done"
  /\ ui' = IF probe.outcome = "returned" /\ probe.ret # NoLog
           THEN StartLoad([ui EXCEPT !.existingLog = Just(RecordOf(store, probe.ret))],
                          "update", 0)
           ELSE StartLoad(ui, "retry_null", 0)
  /\ UNCHANGED <<norm, store, upd, calls, runs, probe, goal>>

\* loadData, step 1 and 2: getTasks, and on its answer the call of
\* ensureDailyLogsExist; a failed getTasks ends loadData.
LoadTasks ==
  /\ ui.pc = "load" /\ ui.load = "tasks"
  /\ \E answered \in BOOLEAN :
       IF answered
       THEN /\ runs' = [r \in UiRunIds |-> NewRun("u1", UiTasks, Today, store)]
            /\ ui' = [ui EXCEPT !.load = "ensure"]
       ELSE /\ ui' = AfterLoad(ui)
            /\ UNCHANGED runs
  /\ UNCHANGED <<norm, store, upd, calls, probe, goal>>

\* loadData, step 3: getDailyLogs(userId, undefined, todayStr) and setLogs,
\* which sets the logs of the next render; a failed fetch sets nothing.
LoadLogs ==
  /\ ui.pc = "load" /\ ui.load = "ensure"
  /\ \A r \in UiRunIds : runs[r].pc = "done"
  /\ \E resp \in QueryResponses(DayMatching(store, "u1", normalizeDate(Today))) :
       LET fetched == getDailyLogs(resp, TRUE, Today)
           loaded == IF fetched.kind = "return"
                     THEN [ui EXCEPT !.shown = fetched.items] ELSE ui
       IN ui' = AfterLoad(loaded)
  /\ UNCHANGED <<norm, store, upd, calls, runs, probe, goal>>

\* The update of the handler: the negated value_bool of the log it holds and,
\* in the number handler, the number input; then a reload, or an alert.
ToggleUpdate ==
  /\ ui.pc = "update"
  /\ LET existingLog == ui.existingLog[1]
         newValue == ~currentValue(existingLog)
         updateData == IF ui.kind = "checklist"
                       THEN checklistUpdateData(newValue)
                       ELSE numberUpdateData(newValue, ui.numberInput)
     IN updateDailyLog(existingLog.id, updateData)
  /\ ui' = IF upd'.outcome = "returned"
           THEN StartLoad(ui, "finish", 0)
           ELSE Finish(ui, "alert_update_failed")
  /\ UNCHANGED <<norm, calls, runs, probe, goal>>

\* A stored log of the toggled task.
ToggledLog(valueBool, valueNumber) ==
  [id |-> 1, task |-> TaskList[1], user |-> "u1", date |-> isoDateString(Today),
   value_bool |-> valueBool, value_number |-> valueNumber, note |-> Null]

\* The store holds the toggled task's log of today, or not yet; the render
\* holds today's logs, or none (a load that was cancelled returns []).
InitToggle ==
  /\ norm = NormIdle
  /\ upd = UpdIdle
  /\ \/ store = {}
     \/ \E b \in {Just(TRUE), Just(FALSE)}, n \in NumberValues : store = {ToggledLog(b, n)}
  /\ calls = [c \in UiCallIds |-> IdleCall]
  /\ runs = [r \in UiRunIds |-> IdleRun]
  /\ probe = ProbeIdle
  /\ \E logs \in {store, {}}, numberInput \in NumberInputs : ui = ReadyUi(logs, numberInput)
  /\ goal = GoalIdle

NextToggle ==
  \/ \E kind \in {"checklist", "number"} : ToggleStart(kind)
  \/ \E c \in UiCallIds : CreatorProbe(c)
  \/ \E c \in UiCallIds : CreatorCreate(c, CreateFaults)
  \/ \E c \in UiCallIds : CreatorFetchAll(c)
  \/ ToggleAfterCreate
  \/ ProberQuery
  \/ ToggleAfterFetch
  \/ LoadTasks
  \/ \E r \in UiRunIds : ReconSnapshot(r)
  \/ \E r \in UiRunIds : ReconProbe(r)
  \/ \E r \in UiRunIds : ReconCreate(r, CreateFaults)
  \/ LoadLogs
  \/ ToggleUpdate

SpecToggle == InitToggle /\ [][NextToggle]_vars

(***************************************************************************)
(* Goal progress: createOrUpdateGoalProgress                               *)
(***************************************************************************)
\* Number of createOrUpdateGoalProgress calls made one after the other.
NumGoalCalls == 2

\* The values handleProgressUpdate sends.
GoalValues == {1, 2, 3}

\* The text the date field keeps for a date written to it: the text as
\* written, or, in a collection that stores dates with a time, the date and the
\* time of day (midnight for a bare day).
GoalDateStored(text, withTime) ==
  IF withTime /\ Len(text) = Len(Today) THEN Timestamp(text, " ", Midnight) ELSE text

\* The date handleProgressUpdate passes: today as GoalsTab holds it (YYYY-MM-DD).
GoalDates == { Today }

\* The record the collection keeps for the data of a create.
GoalEntry(id, data, withTime) ==
  [id |-> id, task |-> data.task, user |-> data.user,
   date |-> GoalDateStored(data.date, withTime), value |-> data.value]

\* The entries the filter user = "..." && task = "..." && date = "..." selects.
GoalMatching(entries, data) ==
  { e \in entries : e.user = data.user /\ e.task = data.task /\ e.date = data.date }

\* What the collection can answer to the lookup: the page of the selected
\* entries, a cancellation, or an error.
GoalLookupResponses(matching) ==
  { [kind |-> "ok", items |-> matching] }
  \cup { [kind |-> "cancelled"] }
  \cup { [kind |-> "error", status |-> n] : n \in QueryErrorStatuses }

\* What the collection can answer to an update or a create.
GoalWriteResponses == {"ok", "forbidden", "server_error"}

\* No call made yet, over the given entries of a collection that stores dates
\* with a time or as written.
GoalReady(entries, withTime) ==
  [pc |-> "ready", entries |-> entries, withTime |-> withTime, data |-> [task |-> TaskList[1], user |-> "u1",
                                                  date |-> Today, value |-> 0],
   found |-> 0, count |-> 0, outcome |-> "none", allReturned |-> TRUE, wrote |-> "none"]

\* The call fails: the error is thrown to the caller.
GoalRaise(g) == [g EXCEPT !.pc = "done", !.outcome = "raised", !.allReturned = FALSE]

\* createOrUpdateGoalProgress({task, date, user, value}) is called, once the
\* call before it has settled.
GoalCall ==
  /\ goal.pc \in {"ready", "done"}
  /\ goal.count < NumGoalCalls
  /\ \E date \in GoalDates, value \in GoalValues :
       goal' = [goal EXCEPT !.pc = "lookup", !.count = @ + 1, !.outcome = "pending",
                            !.found = 0, !.wrote = "none",
                            !.data = [task |-> TaskList[1], user |-> "u1",
                                      date |-> date, value |-> value]]
  /\ UNCHANGED <<norm, store, upd, calls, runs, probe, ui>>

\* getList(1, 1, { filter }): records.items[0] leads to the update, no item
\* to the create, an error out of the call.
GoalLookup ==
  /\ goal.pc = "lookup"
  /\ \E resp \in GoalLookupResponses(GoalMatching(goal.entries, goal.data)) :
       IF resp.kind # "ok" THEN goal' = GoalRaise(goal)
       ELSE IF resp.items = {} THEN goal' = [goal EXCEPT !.pc = "create"]
       ELSE \E first \in resp.items :
              goal' = [goal EXCEPT !.pc = "update", !.found = first.id]
  /\ UNCHANGED <<norm, store, upd, calls, runs, probe, ui>>

\* update(records.items[0].id, data)
GoalUpdate ==
  /\ goal.pc = "update"
  /\ \E response \in GoalWriteResponses :
       IF response = "ok"
       THEN goal' = [goal EXCEPT !.pc = "done", !.outcome = "returned", !.wrote = "update",
                       !.entries = { IF e.id = goal.found
                                         THEN GoalEntry(e.id, goal.data, goal.withTime) ELSE e :
                                       e \in goal.entries }]
       ELSE goal' = GoalRaise(goal)
  /\ UNCHANGED <<norm, store, upd, calls, runs, probe, ui>>

\* create(data)
GoalCreate ==
  /\ goal.pc = "create"
  /\ \E response \in GoalWriteResponses :
       IF response = "ok"
       THEN goal' = [goal EXCEPT !.pc = "done", !.outcome = "returned", !.wrote = "create",
                       !.entries = @ \cup {GoalEntry(Cardinality(@) + 1, goal.data, goal.withTime)}]
       ELSE goal' = GoalRaise(goal)
  /\ UNCHANGED <<norm, store, upd, calls, runs, probe, ui>>

\* The collection stores dates with a time ("PocketBase might store with
\* time") or as written; it is empty, or holds today's entry of the task.
InitGoal ==
  /\ norm = NormIdle
  /\ store = {}
  /\ upd = UpdIdle
  /\ calls = NoCalls
  /\ runs = NoRuns
  /\ probe = ProbeIdle
  /\ ui = UiIdle
  /\ \E withTime \in BOOLEAN :
       \E entries \in { {}, {GoalEntry(1, [task |-> TaskList[1], user |-> "u1",
                                           date |-> Today, value |-> 1], withTime)} } :
         goal = GoalReady(entries, withTime)

NextGoal ==
  \/ GoalCall
  \/ GoalLookup
  \/ GoalUpdate
  \/ GoalCreate

SpecGoal == InitGoal /\ [][NextGoal]_vars

(***************************************************************************)
(* Claims about the normalizer                                             *)
(***************************************************************************)
\* C9: normalizeDate is idempotent: normalizing an already normalized date-like
\* string returns it unchanged.
C9_NormalizeIdempotent == norm.phase = "twice" => norm.z = norm.y

\* C9 witness: a timestamp was cut to its day part and normalized again.
C9_Witness == norm.phase = "twice" /\ norm.y # norm.x /\ norm.z = norm.y

\* C10 as stated: whatever separator stands between date and time, normalizeDate
\* returns the bare YYYY-MM-DD day key of the input.
C10_ReturnsDayKey == norm.phase # "input" => norm.y = norm.day

(***************************************************************************)
(* Claims about concurrent creator calls                                   *)
(***************************************************************************)
\* The logs the store holds for a (task, user, day).
LogsOf(st, userId, taskId, day) ==
  { r \in st : r.user = userId /\ r.task = taskId /\ normalizeDate(r.date) = day }

AllCallsDone == \A c \in DOMAIN calls : calls[c].pc = "done"

C6_LoserReturnsWinner ==
  \A a, b \in DOMAIN calls :
    (calls[a].created /\ calls[b].pc = "done" /\ calls[b].raced
       /\ calls[b].lastRead = "accurate")
    => /\ calls[a].outcome = "returned" /\ calls[a].ret # NoLog
       /\ calls[b].outcome = "returned" /\ calls[b].ret = calls[a].ret
       /\ \E r \in store : r.id = calls[a].ret /\ r.task = calls[b].taskId
                              /\ r.user = calls[b].userId

\* C6 witness: A created, B lost the race, re-probed and returned A's record.
C6_Witness ==
  \E a, b \in DOMAIN calls :
    /\ calls[a].created /\ calls[b].pc = "done" /\ calls[b].raced
    /\ calls[b].lastRead = "accurate" /\ calls[b].ret = calls[a].ret
    /\ calls[b].ret # NoLog

(***************************************************************************)
(* Claims about runs of the reconciler in succession                       *)
(***************************************************************************)
RunDone(r) == runs[r].pc = "done"

RunTasks(r) == Range(runs[r].tasks)

RunLogs(r, t) == LogsOf(store, runs[r].userId, t, normalizeDate(runs[r].date))

\* No create of run r failed with an error other than a uniqueness violation.
NoFailedCreate(r) == \A t \in RunTasks(r) : runs[r].result[t] # "failed"

\* The run r created nothing: none of its creates succeeded, and the store
\* holds as many logs as when it was called (logs are never deleted).
CreatedNothing(r) ==
  /\ \A t \in RunTasks(r) : runs[r].result[t] # "created"
  /\ Cardinality(store) = runs[r].logCount

C4_PartialFailureIsolation ==
  \A r \in RunIds :
    (RunDone(r) /\ runs[r].pre = {} /\ ~NoFailedCreate(r))
    => /\ runs[r].outcome = "returned"
       /\ \A t \in RunTasks(r) :
            runs[r].result[t] # "failed"
            => runs[r].result[t] = "created" /\ RunLogs(r, t) # {}

\* C4 witness: over [A, B, C] with no logs, the create of B failed and the run
\* returned having created the logs of A and C.
C4_Witness ==
  LET run == runs["first"]
  IN /\ RunDone("first") /\ run.pre = {} /\ run.outcome = "returned"
     /\ run.tasks = <<TaskList[1], TaskList[2], TaskList[3]>>
     /\ run.result[TaskList[2]] = "failed"
     /\ run.result[TaskList[1]] = "created" /\ RunLogs("first", TaskList[1]) # {}
     /\ run.result[TaskList[3]] = "created" /\ RunLogs("first", TaskList[3]) # {}

\* C5: when a run has returned and none of its creates failed with an error
\* other than a uniqueness violation, every task of its input has a log for
\* (user, task, day) in the store.
C5_EveryTaskHasLog ==
  \A r \in RunIds :
    (RunDone(r) /\ runs[r].outcome = "returned" /\ NoFailedCreate(r))
    => \A t \in RunTasks(r) : RunLogs(r, t) # {}

\* C5 witness: a run whose snapshot missed an existing log, whose probes missed
\* it too, and whose create was rejected as a duplicate, returned with every
\* task logged.
C5_Witness ==
  \E r \in RunIds :
    /\ RunDone(r) /\ runs[r].outcome = "returned" /\ NoFailedCreate(r)
    /\ runs[r].pre # {} /\ Len(runs[r].need) = Len(runs[r].tasks)
    /\ \E t \in RunTasks(r) : runs[r].result[t] = "created"
    /\ \A t \in RunTasks(r) : RunLogs(r, t) # {}

(***************************************************************************)
(* Claims about a run and creator calls at the same time                   *)
(***************************************************************************)
SameDay(r1, r2) ==
  r1.user = r2.user /\ r1.task = r2.task /\ normalizeDate(r1.date) = normalizeDate(r2.date)

\* C2: in every reachable state of createDailyLogIfNeeded calls interleaved with
\* an ensureDailyLogsExist run, whatever the probes and the snapshot report,
\* the store holds at most one log per (task, user, day).
C2_AtMostOneLogPerDay ==
  \A r1, r2 \in store : SameDay(r1, r2) => r1 = r2

\* C2 witness: a call whose pre-check probes all missed the existing log was
\* refused by the store, and the run, whose snapshot missed every log, went on
\* to its creates with a log in place; the store holds one log per day.
C2_Witness ==
  /\ \E c \in DOMAIN calls :
       /\ calls[c].raced /\ calls[c].pc = "done"
       /\ LogsOf(store, calls[c].userId, calls[c].taskId, normalizeDate(calls[c].date)) # {}
  /\ RunDone("first") /\ runs["first"].pre # {}
  /\ Len(runs["first"].need) = Len(runs["first"].tasks)
  /\ \A t \in RunTasks("first") : Cardinality(RunLogs("first", t)) = 1

(***************************************************************************)
(* Claims about the prober                                                 *)
(***************************************************************************)
\* C11: a getDailyLogByTaskAndDate call issues at most 3 queries; it issues a
\* further query only after a cancelled one; with 3 cancelled queries it
\* returns null and does not raise; a query answered without cancellation ends
\* the call.
C11_BoundedRetryOnCancel ==
  probe.pc # "idle" =>
    /\ probe.queries <= 3
    /\ probe.pc = "query" => probe.cancelled = probe.queries
    /\ probe.cancelled < probe.queries => probe.pc = "done"
    /\ probe.cancelled = 3 =>
         probe.pc = "done" /\ probe.outcome = "returned" /\ probe.ret = NoLog

\* C11 witness: three queries, all cancelled, and the call returned null.
C11_Witness ==
  /\ probe.pc = "done" /\ probe.queries = 3 /\ probe.cancelled = 3
  /\ probe.outcome = "returned" /\ probe.ret = NoLog

\* C12: a query of getDailyLogByTaskAndDate answered with a 400 or a 403 ends
\* the call with that error raised, at whatever attempt it comes, and no query
\* follows it.
C12_FatalQueryErrorsRaised ==
  (probe.pc # "idle" /\ probe.last.kind = "error" /\ probe.last.status \in {400, 403})
  => /\ probe.pc = "done" /\ probe.outcome = "raised"
     /\ probe.message = IF probe.last.status = 403 THEN "Access denied"
                                                   ELSE "Invalid filter syntax"

\* C12 witness: after a cancelled query, the retry was answered 403 and the
\* call raised 'Access denied' with two queries issued.
C12_Witness ==
  /\ probe.pc = "done" /\ probe.outcome = "raised" /\ probe.queries = 2
  /\ probe.cancelled = 1 /\ probe.last.kind = "error" /\ probe.last.status = 403
  /\ probe.message = "Access denied"

\* The stored log with identity id is of the probed user and task and its
\* normalized date is the normalized day asked for.
IsProbedLog(r) ==
  /\ r.user = probe.userId /\ r.task = probe.taskId
  /\ normalizeDate(r.date) = normalizeDate(probe.date)

\* C13: a log that getDailyLogByTaskAndDate returns is a stored log of the given
\* user and task whose normalized date is the normalized day asked for; and a
\* query answered, uncancelled, with a result that holds no such log ends the
\* call with null.
C13_ExactMatchOrNull ==
  (probe.pc = "done" /\ probe.outcome = "returned") =>
    /\ probe.ret # NoLog => \E r \in store : r.id = probe.ret /\ IsProbedLog(r)
    /\ (probe.last.kind = "ok" /\ ~ \E r \in probe.last.items : IsProbedLog(r))
         => probe.ret = NoLog

\* C13 witness: the result held only a log of the day whose text normalizes to
\* something else, and the call returned null; the store holds logs of the
\* adjacent days, which the result left out.
C13_Witness ==
  /\ probe.pc = "done" /\ probe.outcome = "returned" /\ probe.ret = NoLog
  /\ probe.last.kind = "ok" /\ probe.last.items # {}
  /\ \E r \in store : r.user = probe.userId /\ r.task = probe.taskId
                        /\ normalizeDate(r.date) = DayKey(16)

(***************************************************************************)
(* Claims about the creator after a lost race                              *)
(***************************************************************************)
CallLogs(c) ==
  LogsOf(store, calls[c].userId, calls[c].taskId, normalizeDate(calls[c].date))

\* A step of call c after its create was refused as a duplicate: from the
\* re-probe loop it returns a record it found, or goes to the next of 3
\* re-probes, or after the third to the full fetch; a re-probe that read what
\* the store holds returns the log; from the full fetch it returns the log or
\* null; it never raises.
LostRaceStep(c) ==
  LET old == calls[c]
      new == calls'[c]
  IN /\ new.outcome # "raised"
     /\ (old.pc = "reprobe" /\ new.pc = "done")
          => new.ret \in { r.id : r \in CallLogs(c) }
     /\ (old.pc = "reprobe" /\ new.pc = "reprobe")
          => new.attempt < 3 /\ new.attempt \in {old.attempt, old.attempt + 1}
     /\ (old.pc = "reprobe" /\ new.lastRead = "accurate" /\ new # old)
          => new.pc = "done" /\ new.ret \in { r.id : r \in CallLogs(c) }
     /\ new.pc = "fetchall" => old.pc \in {"reprobe", "fetchall"}
     /\ (old.pc = "reprobe" /\ new.pc = "fetchall") => old.attempt = 2
     /\ (old.pc = "fetchall" /\ new # old)
          => /\ new.pc = "done" /\ new.outcome = "returned"
             /\ new.ret \in { r.id : r \in CallLogs(c) } \cup {NoLog}

\* C14: once the create of a createDailyLogIfNeeded call has failed with a
\* uniqueness violation, the call never raises: it re-probes up to 3 times and
\* returns the record as soon as a probe finds it; only after the third failed
\* re-probe does it fetch the user's logs and scan them, and it then returns
\* the match or null.
C14_LostRaceRecovery ==
  [][\A c \in DOMAIN calls : calls[c].raced => LostRaceStep(c)]_vars

\* C14 witness: a call whose create was refused went through its 3 re-probes
\* and the full fetch without seeing the log, and returned null.
C14_Witness ==
  \E c \in DOMAIN calls :
    /\ calls[c].raced /\ calls[c].pc = "done" /\ calls[c].outcome = "returned"
    /\ calls[c].ret = NoLog /\ CallLogs(c) # {}

(***************************************************************************)
(* Claims about the creator and failing requests                           *)
(***************************************************************************)
\* C15: a createDailyLogIfNeeded call whose create failed with anything but a
\* uniqueness violation, a 400 validation error with field data included, ends
\* with the error raised and does not take the lost-race branch.
C15_OtherCreateFailuresRaised ==
  \A c \in DOMAIN calls :
    calls[c].createAnswer \notin {"none", "created", "not_unique"}
    => calls[c].pc = "done" /\ calls[c].outcome = "raised" /\ ~calls[c].raced

\* C16: when a createDailyLogIfNeeded call has returned null, the store holds a
\* log for its (user, task, day).
C16_NullMeansLogExists ==
  \A c \in DOMAIN calls :
    (calls[c].pc = "done" /\ calls[c].outcome = "returned" /\ calls[c].ret = NoLog)
    => CallLogs(c) # {}

\* C17: no createDailyLogIfNeeded call ends with an error raised because a
\* request of it was cancelled.
C17_CancellationNeverEscapes ==
  \A c \in DOMAIN calls :
    calls[c].outcome = "raised"
    => calls[c].createAnswer \notin {"cancelled", "cancelled_applied"}

\* C18: against a store that fails every read, a createDailyLogIfNeeded call
\* whose probe was answered ends with the error raised and issues no create.
C18_ProbeErrorPropagates ==
  \A c \in DOMAIN calls :
    calls[c].lastRead # "none"
    => /\ calls[c].pc = "done" /\ calls[c].outcome = "raised"
       /\ calls[c].createAnswer = "none"

(***************************************************************************)
(* Claims about the reconciler's snapshot                                  *)
(***************************************************************************)
\* The snapshot fetch of run r has been answered.
SnapshotTaken(r) == runs[r].pc \notin {"idle", "snapshot"}

\* C19: a run whose snapshot fetch failed or was cancelled goes on: every task
\* of its input is taken as uncovered, each goes through the probe and create
\* step, and the run returns without raising.
C19_SnapshotFailureTolerated ==
  \A r \in RunIds :
    SnapshotTaken(r)
    => /\ runs[r].need = runs[r].tasks
       /\ runs[r].outcome # "raised"
       /\ RunDone(r) => /\ runs[r].outcome = "returned"
                        /\ \A t \in RunTasks(r) : runs[r].result[t] # "unprocessed"

\* C19 witness: after a failed snapshot fetch, with a log stored, the run
\* probed every task, found the stored log, created another, and returned.
C19_Witness ==
  \E r \in RunIds :
    /\ RunDone(r) /\ runs[r].outcome = "returned" /\ runs[r].need = runs[r].tasks
    /\ \E t \in RunTasks(r) : runs[r].result[t] = "exists"
    /\ \E t \in RunTasks(r) : runs[r].result[t] = "created"

(***************************************************************************)
(* Claims about the order of the creator's requests                        *)
(***************************************************************************)
\* The create request of call c has been issued, or is the next request.
CreateReached(c) == calls[c].pc = "create" \/ calls[c].createAnswer # "none"

\* C22: a call issues its create request only after a probe of it reported
\* 'not found', and a call that returned without a create returned a stored
\* log of its (user, task, day).  Against a store that fails every read no
\* probe reports anything, so no call may reach its create request.
C22_CreateOnlyAfterNotFound ==
  \A c \in DOMAIN calls :
    /\ ~CreateReached(c)
    /\ (calls[c].pc = "done" /\ calls[c].outcome = "returned")
         => calls[c].ret \in { r.id : r \in CallLogs(c) }

(***************************************************************************)
(* Claims about what the creator and the reconciler write                  *)
(***************************************************************************)
\* The log r is a default log of (userId, taskId, day of date).
IsDefaultLogOf(r, userId, taskId, date) ==
  /\ r.user = userId /\ r.task = taskId
  /\ normalizeDate(r.date) = normalizeDate(date)
  /\ r.value_bool = Just(FALSE) /\ r.value_number = Null /\ r.note = Null

\* The log r is what a create request now due would store: the create of a
\* call, or of the current task of a run.
IsDueCreate(r) ==
  \/ \E c \in DOMAIN calls :
       /\ calls[c].pc = "create"
       /\ IsDefaultLogOf(r, calls[c].userId, calls[c].taskId, calls[c].date)
  \/ \E k \in DOMAIN runs :
       /\ runs[k].pc = "create"
       /\ IsDefaultLogOf(r, runs[k].userId, runs[k].need[runs[k].i], runs[k].date)

\* C23: every log that createDailyLogIfNeeded or ensureDailyLogsExist adds to
\* the store is the one log of a create request of theirs, for the requested
\* user, task and day, with value_bool = false, no value_number and no note.
C23_CreatedWithDefaults ==
  [][ /\ Cardinality(store' \ store) <= 1
      /\ \A r \in store' \ store : IsDueCreate(r) ]_vars

\* C23 witness: the run created the log of one task and a call created the
\* log of another; the two logs are default logs of the requested day.
C23_Witness ==
  /\ \E c \in DOMAIN calls :
       /\ calls[c].created
       /\ \E r \in store : r.id = calls[c].ret
            /\ IsDefaultLogOf(r, calls[c].userId, calls[c].taskId, calls[c].date)
  /\ runs["first"].pc # "idle"
  /\ \E t \in RunTasks("first") :
       /\ runs["first"].result[t] = "created"
       /\ \A r \in RunLogs("first", t) :
            IsDefaultLogOf(r, runs["first"].userId, t, runs["first"].date)

(***************************************************************************)
(* Claims about the order of the reconciler's requests                     *)
(***************************************************************************)
\* The tasks of need, in the order tasks holds them.
InInputOrder(need, tasks) ==
  LET needed(t) == t \in Range(need) IN need = SelectSeq(tasks, needed)

\* C24: a run works on one uncovered task at a time, in input order: the tasks
\* before the current one are resolved (found, created, refused or failed),
\* the current one and those after it are not, and the requests of the run
\* are those of the current task alone.
C24_OneTaskAtATime ==
  \A r \in RunIds :
    SnapshotTaken(r) =>
      LET run == runs[r] IN
      /\ InInputOrder(run.need, run.tasks)
      /\ run.i \in 0..Len(run.need)
      /\ RunDone(r) => run.i = Len(run.need)
      /\ \A k \in 1..Len(run.need) :
           run.result[run.need[k]] # "unprocessed" <=> (k < run.i \/ RunDone(r))

\* C24 witness: over three uncovered tasks the run is at the create of the
\* second; the first is resolved and the third untouched.
C24_Witness ==
  \E r \in RunIds :
    /\ runs[r].pc = "create" /\ Len(runs[r].need) = 3 /\ runs[r].i = 2
    /\ runs[r].result[runs[r].need[1]] = "failed"
    /\ runs[r].result[runs[r].need[3]] = "unprocessed"

\* C25: the tasks a run probes and creates for are the input tasks absent from
\* its snapshot, so none of the snapshot's tasks is ever the current task; and
\* a run whose snapshot covers every task returns having issued one store
\* request, the snapshot fetch.
C25_CoveredTasksUntouched ==
  \A r \in RunIds :
    SnapshotTaken(r) =>
      LET run == runs[r]
          uncovered(t) == t \notin run.covered
      IN /\ run.need = SelectSeq(run.tasks, uncovered)
         /\ run.pc \in {"check", "create"} => run.need[run.i] \notin run.covered
         /\ RunTasks(r) \subseteq run.covered
              => RunDone(r) /\ run.outcome = "returned" /\ run.requests = "one"

\* C25 witness: the second run's snapshot showed the logs of all its tasks and
\* the run returned after that one request.
C25_Witness ==
  /\ RunDone("second") /\ runs["second"].requests = "one"
  /\ runs["second"].covered = RunTasks("second")
  /\ Len(runs["second"].tasks) = 3 /\ runs["second"].need = << >>

(***************************************************************************)
(* Claims about the creator's termination                                  *)
(***************************************************************************)
\* The most store requests a call can have issued when it stands at its
\* position: the probes of the loops behind it, the create, the full fetch.
RequestsUpTo(call) ==
  LET precheck == PrecheckAttempts * ProbeAttempts
      reprobe == ReprobeAttempts * ProbeAttempts
  IN CASE call.pc = "precheck" -> call.attempt * ProbeAttempts + call.q
       [] call.pc = "create"   -> precheck
       [] call.pc = "reprobe"  -> precheck + 1 + call.attempt * ProbeAttempts + call.q
       [] call.pc = "fetchall" -> precheck + 1 + reprobe
       [] call.pc = "done"     -> precheck + 1 + reprobe + 1

\* A call has issued its create request.
CreateIssued(call) == call.createAnswer # "none"

\* C26: every call ends, whatever its requests are answered (cancelled, stale,
\* refused): each request moves the call strictly forward through a bounded
\* sequence of positions, and the create request is issued at most once.
C26_CreatorTerminates ==
  /\ <>[]AllCallsDone
  /\ [][ \A c \in DOMAIN calls :
           calls'[c] # calls[c] =>
             /\ calls[c].pc # "done"
             /\ RequestsUpTo(calls'[c]) > RequestsUpTo(calls[c])
             /\ calls[c].pc = "create" => ~CreateIssued(calls[c])
             /\ CreateIssued(calls[c]) => calls'[c].pc # "create"
             /\ calls[c].pc # "create" => calls'[c].createAnswer = calls[c].createAnswer ]_vars

\* C26 witness: a call ended whose every probe was cancelled, whose create lost
\* the race and whose full fetch was cancelled too.
C26_Witness ==
  \E c \in DOMAIN calls :
    /\ calls[c].pc = "done" /\ calls[c].raced
    /\ calls[c].lastRead = "disturbed"
    /\ calls[c].ret = NoLog

(***************************************************************************)
(* Claims about the toggle handlers                                        *)
(***************************************************************************)
\* The handler issues its update in this step.
UpdateIssued == ui.pc = "update" /\ upd'.phase = "done"

\* C27: the update of handleNumberCheckboxToggle on a checked log sends
\* value_bool = false and nothing else, so no log's stored value_number
\* changes; value_number is sent exactly when the toggle checks the box and the
\* number input holds a number.
C27_UncheckKeepsNumber ==
  [][ (UpdateIssued /\ ui.kind = "number") =>
        LET wasChecked == currentValue(ui.existingLog[1])
        IN /\ wasChecked =>
                /\ upd'.sent = [f \in {"value_bool"} |-> Just(FALSE)]
                /\ \A r \in store : \E t \in store' :
                     t.id = r.id /\ t.value_number = r.value_number
           /\ "value_number" \in DOMAIN upd'.sent
                <=> (~wasChecked /\ ui.numberInput.kind = "number") ]_vars

\* C27 witness: a checked number log holding 7 was unchecked while the input
\* held 5; the update was applied and the log still holds 7.
C27_Witness ==
  /\ ui.pc \in {"load", "done"} /\ ui.kind = "number"
  /\ ui.numberInput.kind = "number"
  /\ upd.phase = "done" /\ upd.response = "ok"
  /\ DOMAIN upd.sent = {"value_bool"}
  /\ \E r \in store : /\ r.id = upd.logId
                      /\ r.value_bool = Just(FALSE)
                      /\ r.value_number = Just(7)

\* C28: apart from the handler's update, no step of the prober, the creator or
\* the reconciler removes a log or changes a field of a stored log: every
\* record of the store is in the store after the step.
C28_LogsOnlyGrow ==
  [][ ~UpdateIssued => \A r \in store : r \in store' ]_vars

\* C28 witness: after a toggle checked the log and stored 5, loadData
\* reconciled the day again and the log is still checked and holds 5.
C28_Witness ==
  /\ ui.pc = "done" /\ ui.outcome = "updated"
  /\ \A r \in UiRunIds : runs[r].pc = "done"
  /\ \E r \in store : /\ r.task = ui.taskId
                      /\ r.value_bool = Just(TRUE)
                      /\ r.value_number = Just(5)

\* The handler did not find the log in its render's logs and
\* createDailyLogIfNeeded returned it a log.
CreatedLogReturned ==
  /\ ui.pc \notin {"idle", "ready", "create"}
  /\ \E c \in UiCallIds :
       calls[c].pc = "done" /\ calls[c].outcome = "returned" /\ calls[c].ret # NoLog

\* C29: a handler that did not find the log in its render's logs and got one
\* from createDailyLogIfNeeded ends having issued updateDailyLog on that log's
\* identity with the negation of its value_bool, not with an alert that the log
\* was not found or not created; and its lookups read the logs captured at the
\* start, which no reload changes.
C29_CreatedLogIsToggled ==
  (CreatedLogReturned /\ ui.pc = "done") =>
    /\ ui.outcome \in {"updated", "alert_update_failed"}
    /\ upd.phase = "done"
    /\ \E c \in UiCallIds : upd.logId = calls[c].ret
    /\ ui.existingLog # Null
    /\ upd.data["value_bool"] = Just(~currentValue(ui.existingLog[1]))

(***************************************************************************)
(* Claims about goal progress                                              *)
(***************************************************************************)
\* The entries of the calls' (user, task, day).
KeyEntries ==
  { e \in goal.entries : /\ e.user = goal.data.user /\ e.task = goal.data.task
                         /\ e.date = GoalDateStored(goal.data.date, goal.withTime) }

\* C30: after any sequence of calls for one (user, task, date), made one after
\* the other and each returning, the collection holds exactly one entry for
\* that key, with the value of the last call.
C30_UpsertLeavesOneEntry ==
  (goal.pc = "done" /\ goal.allReturned) =>
    /\ Cardinality(KeyEntries) = 1
    /\ \A e \in KeyEntries : e.value = goal.data.value

(***************************************************************************)
(* Claims about the mutation applier                                       *)
(***************************************************************************)
\* C7: an update with only {value_bool: true} on an existing log sets its
\* value_bool to true and leaves its value_number and note as they were.
C7_SparseUpdate ==
  [][ (upd'.phase = "done" /\ upd'.outcome = "returned"
         /\ upd'.data = [f \in {"value_bool"} |-> Just(TRUE)])
      => \A r \in store : r.id = upd'.logId =>
           \E r2 \in store' :
             /\ r2.id = r.id
             /\ r2.value_bool = Just(TRUE)
             /\ r2.value_number = r.value_number
             /\ r2.note = r.note ]_vars

\* C7 witness: a log that held a value_number and a note was updated with only
\* {value_bool: true} and still holds them.
C7_Witness ==
  /\ upd.phase = "done" /\ upd.outcome = "returned"
  /\ upd.data = [f \in {"value_bool"} |-> Just(TRUE)]
  /\ \E r \in store :
       /\ r.id = upd.logId
       /\ r.value_bool = Just(TRUE)
       /\ r.value_number = Just(7)
       /\ r.note = Just("gym")

\* C8 as stated: the fields sent are exactly the fields present and non-null in
\* the input (an empty-string note included).
C8_SendsPresentNonNull ==
  upd.phase = "done" =>
    DOMAIN upd.sent = { f \in DOMAIN upd.data : upd.data[f] # Null }

\* C20: an updateDailyLog call on an identity no stored log has ends with an
\* error raised, leaves the store as it was, and starts no probe, create or
\* reconciliation.
C20_MissingLogIsFatal ==
  [][ (upd'.phase = "done" /\ ~HasId(store, upd'.logId))
      => /\ upd'.outcome = "raised" /\ upd'.error # "none"
         /\ store' = store
         /\ calls' = calls /\ runs' = runs /\ probe' = probe ]_vars

\* C20 witness: with logs stored, an update of an identity none of them has was
\* answered 'not found' and raised 'Failed to update daily log'.
C20_Witness ==
  /\ upd.phase = "done" /\ upd.logId = MissingId /\ ~HasId(store, upd.logId)
  /\ upd.outcome = "raised" /\ upd.error = "Failed to update daily log"
  /\ store # {}

\* C21: a failed updateDailyLog call leaves the store as it was, and the error
\* it raises for a 403 answer is one it raises for no other failure.
C21_PermissionErrorDistinct ==
  [][ (upd'.phase = "done" /\ upd'.response # "ok")
      => /\ upd'.outcome = "raised"
         /\ store' = store
         /\ upd'.response = "forbidden" <=> upd'.error = "Access denied" ]_vars

\* C21 witness: an update of a stored log was answered 403 and raised 'Access
\* denied'; the log holds what it held.
C21_Witness ==
  /\ upd.phase = "done" /\ upd.response = "forbidden"
  /\ upd.outcome = "raised" /\ upd.error = "Access denied"
  /\ "value_bool" \in DOMAIN upd.sent /\ upd.sent["value_bool"] = Just(TRUE)
  /\ \E r \in store : r.id = upd.logId /\ r.value_bool = Just(FALSE)

====
